---- MODULE Spec2Model ----
(***************************************************************************)
(* A model of the Lambda authorizer: the AuthPolicy builder                *)
(* (src/tools/AuthPolicy.mts), the HttpVerb enumeration and the handler    *)
(* (src/tools/AuthResponse.mts, second half) that drives it.               *)
(*                                                                         *)
(* Strings the code takes apart (resource paths, the effect, the           *)
(* authorization header) are sequences of one-character strings.  A        *)
(* resource ARN is the sequence of the template's pieces followed by the   *)
(* characters of the cleaned path.  A nullable value is a sequence of      *)
(* length 0 (null / undefined) or 1.  A condition map is a function from   *)
(* its keys to its values.                                                 *)
(***************************************************************************)
EXTENDS Integers, Sequences, FiniteSets, TLC

VARIABLES
    policy,        \* the AuthPolicy object (its fields)
    ret,           \* the last call made on the builder and how it ended
    pc,            \* the handler's position
    event,         \* the handler's argument: [authorizationToken]
    token,         \* handler local `token`
    user,          \* handler local `user` (<<>> while undefined)
    principalId,   \* handler local `principalId`
    firestoreUser, \* handler local `firestoreUser` (<<>> while unset)
    caught,        \* the error the handler's catch block received (<<>>: none)
    response       \* what the handler returned (<<>>: nothing yet)

vars == <<policy, ret, pc, event, token, user, principalId, firestoreUser, caught, response>>
handlerVars == <<pc, event, token, user, principalId, firestoreUser, caught, response>>

-----------------------------------------------------------------------------
(* Characters and strings *)

Lower == {"a","b","c","d","e","f","g","h","i","j","k","l","m",
          "n","o","p","q","r","s","t","u","v","w","x","y","z"}
Upper == {"A","B","C","D","E","F","G","H","I","J","K","L","M",
          "N","O","P","Q","R","S","T","U","V","W","X","Y","Z"}
Digit == {"0","1","2","3","4","5","6","7","8","9"}

\* String.prototype.toUpperCase / toLowerCase on one character (ASCII letters
\* are the only ones the model's strings hold that have a case).
UpperOf ==
    [c \in Lower |->
        CASE c = "a" -> "A" [] c = "b" -> "B" [] c = "c" -> "C" [] c = "d" -> "D"
          [] c = "e" -> "E" [] c = "f" -> "F" [] c = "g" -> "G" [] c = "h" -> "H"
          [] c = "i" -> "I" [] c = "j" -> "J" [] c = "k" -> "K" [] c = "l" -> "L"
          [] c = "m" -> "M" [] c = "n" -> "N" [] c = "o" -> "O" [] c = "p" -> "P"
          [] c = "q" -> "Q" [] c = "r" -> "R" [] c = "s" -> "S" [] c = "t" -> "T"
          [] c = "u" -> "U" [] c = "v" -> "V" [] c = "w" -> "W" [] c = "x" -> "X"
          [] c = "y" -> "Y" [] c = "z" -> "Z"]

toUpperCase(s) ==
    [i \in 1..Len(s) |-> IF s[i] \in Lower THEN UpperOf[s[i]] ELSE s[i]]

toLowerCase(s) ==
    [i \in 1..Len(s) |->
        IF s[i] \in Upper THEN CHOOSE c \in Lower : UpperOf[c] = s[i] ELSE s[i]]

\* s.charAt(0): the first character, or the empty string
charAt0(s) == IF Len(s) >= 1 THEN <<s[1]>> ELSE <<>>

\* s.slice(1) and s.substring(n) for 0 <= n: the rest of the string
slice(s, n) == IF n >= Len(s) THEN <<>> ELSE SubSeq(s, n + 1, Len(s))

startsWith(s, c) == Len(s) >= 1 /\ s[1] = c

-----------------------------------------------------------------------------
(* HttpVerb (unnamed/part_000) *)

HttpVerb ==
    [GET |-> "GET", POST |-> "POST", PUT |-> "PUT", PATCH |-> "PATCH",
     HEAD |-> "HEAD", DELETE |-> "DELETE", OPTIONS |-> "OPTIONS", ALL |-> "*"]

\* Object.values(HttpVerb)
ObjectValues(enum) == {enum[k] : k \in DOMAIN enum}

-----------------------------------------------------------------------------
(* AuthPolicy *)

\* pathRegex = '^[/.a-zA-Z0-9-\*]+$': in the string literal \* is *, so the
\* field holds the expression ^[/.a-zA-Z0-9-*]+$
pathRegex == "^[/.a-zA-Z0-9-*]+$"

\* the character class of that expression: '/', '.', the ranges a-z, A-Z and
\* 0-9, then '-' and '*' (a '-' that follows a range is a literal)
CharacterClass(regex) ==
    CASE regex = "^[/.a-zA-Z0-9-*]+$" ->
             {"/", "."} \cup Lower \cup Upper \cup Digit \cup {"-", "*"}

\* a variant for an expression of the shape ^[class]*$
RegExpTest_Star(regex, s) == \A i \in 1..Len(s) : s[i] \in CharacterClass(regex)

\* new RegExp(regex).test(s) for an expression of the shape ^[class]+$: the
\* whole of s is one or more characters of the class
RegExpTest(regex, s) ==
    Len(s) >= 1 /\ \A i \in 1..Len(s) : s[i] \in CharacterClass(regex)

ErrInvalidVerb == "Invalid HTTP verb"
ErrInvalidResourcePath == "Invalid resource path"
ErrNoStatements == "No statements defined for the policy"
NoError == "none"

Allow == <<"A","l","l","o","w">>
Deny == <<"D","e","n","y">>

\* null conditions; an object's conditions are <<map>>
Null == <<>>
EmptyObject == [k \in {} |-> ""]
\* Object.keys(o)
ObjectKeys(o) == DOMAIN o

\* the AuthPolicy field initializers and the constructor
NewAuthPolicy(principal, awsAccountId) ==
    [awsAccountId |-> awsAccountId,
     principalId  |-> principal,
     version      |-> "2012-10-17",
     pathRegex    |-> pathRegex,
     allowMethods |-> <<>>,
     denyMethods  |-> <<>>,
     restApiId    |-> "<<restApiId>>",
     region       |-> "us-east-1",
     stage        |-> "<<stage>>"]

\* the template literal of _addMethod
ResourceArn(region, awsAccountId, restApiId, stage, verb, resourcePath) ==
    <<"arn:aws:execute-api:", region, ":", awsAccountId, ":", restApiId,
      "/", stage, "/", verb, "/">> \o resourcePath

\* a variant that strips every leading '/', as resource.replace(/^\/+/, '')
RECURSIVE CleanPath_StripAll(_)
CleanPath_StripAll(resource) ==
    IF startsWith(resource, "/") THEN CleanPath_StripAll(slice(resource, 1))
    ELSE resource

\* resource.startsWith('/') ? resource.slice(1) : resource
CleanPath(resource) ==
    IF startsWith(resource, "/") THEN slice(resource, 1) ELSE resource

\* a variant with || for && in the verb test
VerbOk_Or(verb) == ~(verb # HttpVerb.ALL \/ verb \notin ObjectValues(HttpVerb))

\* the verb test of _addMethod
VerbOk(verb) == ~(verb # HttpVerb.ALL /\ verb \notin ObjectValues(HttpVerb))

\* a variant that puts the new grant first (unshift for push)
_addMethod_Unshift(p, effect, verb, resource, conditions) ==
    IF ~VerbOk(verb)
    THEN [threw |-> ErrInvalidVerb, policy |-> p]
    ELSE IF ~RegExpTest(p.pathRegex, resource)
    THEN [threw |-> ErrInvalidResourcePath, policy |-> p]
    ELSE LET method ==
                 [resourceArn |-> ResourceArn(p.region, p.awsAccountId, p.restApiId,
                                              p.stage, verb, CleanPath(resource)),
                  conditions |-> conditions]
         IN  IF effect = Allow
             THEN [threw |-> NoError,
                   policy |-> [p EXCEPT !.allowMethods = <<method>> \o @]]
             ELSE [threw |-> NoError,
                   policy |-> [p EXCEPT !.denyMethods = <<method>> \o @]]

\* _addMethod: the error thrown (NoError when it returns) and the builder after
_addMethod(p, effect, verb, resource, conditions) ==
    IF ~VerbOk(verb)
    THEN [threw |-> ErrInvalidVerb, policy |-> p]
    ELSE IF ~RegExpTest(p.pathRegex, resource)
    THEN [threw |-> ErrInvalidResourcePath, policy |-> p]
    ELSE LET resourcePath == CleanPath(resource)
             resourceArn == ResourceArn(p.region, p.awsAccountId, p.restApiId,
                                        p.stage, verb, resourcePath)
             method == [resourceArn |-> resourceArn, conditions |-> conditions]
         IN  IF effect = Allow
             THEN [threw |-> NoError,
                   policy |-> [p EXCEPT !.allowMethods = Append(@, method)]]
             ELSE [threw |-> NoError,
                   policy |-> [p EXCEPT !.denyMethods = Append(@, method)]]

\* _getEmptyStatement
_getEmptyStatement(effect) ==
    [Action   |-> "execute-api:Invoke",
     Effect   |-> toUpperCase(charAt0(effect)) \o toLowerCase(slice(effect, 1)),
     Resource |-> <<>>]

\* a variant without the empty-map test
IsUnconditional_NullOnly(curMethod) == curMethod.conditions = Null

\* curMethod.conditions === null || Object.keys(curMethod.conditions).length === 0
IsUnconditional(curMethod) ==
    \/ curMethod.conditions = Null
    \/ Cardinality(ObjectKeys(curMethod.conditions[1])) = 0

\* the loop of _getStatementForEffect over methods[1..n]: the loop's two
\* accumulators, `statement` (the shared one) and `statements`
RECURSIVE StatementLoop(_, _, _)
StatementLoop(effect, methods, n) ==
    IF n = 0
    THEN [statement |-> _getEmptyStatement(effect), statements |-> <<>>]
    ELSE LET acc == StatementLoop(effect, methods, n - 1)
             curMethod == methods[n]
         IN  IF IsUnconditional(curMethod)
             THEN [acc EXCEPT !.statement.Resource = Append(@, curMethod.resourceArn)]
             ELSE LET empty == _getEmptyStatement(effect)
                      conditionalStatement ==
                          [Action    |-> empty.Action,
                           Effect    |-> empty.Effect,
                           Resource  |-> Append(empty.Resource, curMethod.resourceArn),
                           Condition |-> curMethod.conditions[1]]
                  IN  [acc EXCEPT !.statements = Append(@, conditionalStatement)]

\* a variant that puts the shared statement first
_getStatementForEffect_SharedFirst(effect, methods) ==
    IF Len(methods) > 0
    THEN LET acc == StatementLoop(effect, methods, Len(methods))
         IN  IF Len(acc.statement.Resource) > 0
             THEN <<acc.statement>> \o acc.statements
             ELSE acc.statements
    ELSE <<>>

_getStatementForEffect(effect, methods) ==
    IF Len(methods) > 0
    THEN LET acc == StatementLoop(effect, methods, Len(methods))
         IN  IF Len(acc.statement.Resource) > 0
             THEN Append(acc.statements, acc.statement)
             ELSE acc.statements
    ELSE <<>>

\* the document build returns
Document(p) ==
    [principalId |-> p.principalId,
     policyDocument |->
         [Version |-> p.version,
          Statement |-> _getStatementForEffect(Allow, p.allowMethods)
                        \o _getStatementForEffect(Deny, p.denyMethods)]]

\* a variant with || for && in the emptiness test
build_Or(p) ==
    IF Len(p.allowMethods) = 0 \/ Len(p.denyMethods) = 0
    THEN [threw |-> ErrNoStatements, value |-> <<>>, policy |-> p]
    ELSE [threw |-> NoError, value |-> <<Document(p)>>, policy |-> p]

\* a variant that empties the lists it has compiled
build_Consuming(p) ==
    IF Len(p.allowMethods) = 0 /\ Len(p.denyMethods) = 0
    THEN [threw |-> ErrNoStatements, value |-> <<>>, policy |-> p]
    ELSE [threw |-> NoError, value |-> <<Document(p)>>,
          policy |-> [p EXCEPT !.allowMethods = <<>>, !.denyMethods = <<>>]]

\* build: the error thrown, the document returned (<<doc>>) and the builder after.
\* The lists are arrays from construction on (no method assigns them), so the
\* === null alternatives of the emptiness test never decide it.
build(p) ==
    IF Len(p.allowMethods) = 0 /\ Len(p.denyMethods) = 0
    THEN [threw |-> ErrNoStatements, value |-> <<>>, policy |-> p]
    ELSE [threw |-> NoError, value |-> <<Document(p)>>, policy |-> p]

-----------------------------------------------------------------------------
(* Calls on the builder *)

\* what `ret` records of a call: the method, its arguments, the error thrown
\* and the value returned (<<>> for void)
Call(op, verb, resource, conditions, threw, value) ==
    [op |-> op, verb |-> verb, resource |-> resource, conditions |-> conditions,
     threw |-> threw, value |-> value]

NoCall == Call("new", "", <<>>, Null, NoError, <<>>)

\* a public mutator: one call of _addMethod on the builder
Mutator(op, effect, verb, resource, conditions) ==
    LET r == _addMethod(policy, effect, verb, resource, conditions)
    IN  /\ policy' = r.policy
        /\ ret' = Call(op, verb, resource, conditions, r.threw, <<>>)
        /\ UNCHANGED handlerVars

allowAllMethods == Mutator("allowAllMethods", Allow, HttpVerb.ALL, <<"*">>, Null)

denyAllMethods == Mutator("denyAllMethods", Deny, HttpVerb.ALL, <<"*">>, Null)

allowMethod(verb, resource) == Mutator("allowMethod", Allow, verb, resource, Null)

denyMethod(verb, resource) == Mutator("denyMethod", Deny, verb, resource, Null)

allowMethodWithConditions(verb, resource, conditions) ==
    Mutator("allowMethodWithConditions", Allow, verb, resource, <<conditions>>)

denyMethodWithConditions(verb, resource, conditions) ==
    Mutator("denyMethodWithConditions", Deny, verb, resource, <<conditions>>)

Build ==
    LET r == build(policy)
    IN  /\ policy' = r.policy
        /\ ret' = Call("build", "", <<>>, Null, r.threw, r.value)
        /\ UNCHANGED handlerVars

\* the caller's field assignments (as the handler's policy.region = ...)
SetRegion(v) ==
    /\ policy' = [policy EXCEPT !.region = v]
    /\ ret' = Call("region=", "", <<>>, Null, NoError, <<>>)
    /\ UNCHANGED handlerVars

SetRestApiId(v) ==
    /\ policy' = [policy EXCEPT !.restApiId = v]
    /\ ret' = Call("restApiId=", "", <<>>, Null, NoError, <<>>)
    /\ UNCHANGED handlerVars

SetStage(v) ==
    /\ policy' = [policy EXCEPT !.stage = v]
    /\ ret' = Call("stage=", "", <<>>, Null, NoError, <<>>)
    /\ UNCHANGED handlerVars

NumGrants == Len(policy.allowMethods) + Len(policy.denyMethods)

MutatorOps ==
    {"allowAllMethods", "denyAllMethods", "allowMethod", "denyMethod",
     "allowMethodWithConditions", "denyMethodWithConditions"}
AllowOps == {"allowAllMethods", "allowMethod", "allowMethodWithConditions"}
SetterOps == {"region=", "restApiId=", "stage="}

-----------------------------------------------------------------------------
(* Inputs *)

GuestPrincipal == "ar_detailing|guest"
AccountId == "067520872288"

CondA == [IpAddress |-> "10.0.0.0/8"]
CondB == [IpAddress |-> "10.0.0.0/8", DateLessThan |-> "2030-01-01"]

\* the handler is idle in the specifications that drive the builder directly
HandlerIdle ==
    /\ pc = "idle"
    /\ event = [authorizationToken |-> <<>>]
    /\ token = <<>>
    /\ user = <<>>
    /\ principalId = ""
    /\ firestoreUser = <<>>
    /\ caught = <<>>
    /\ response = <<>>

-----------------------------------------------------------------------------
(* Spec: a client accumulates grants and builds *)

MaxGrants == 4

SeqVerbs == {"GET", "TRACE"}
SeqPaths == {<<"/", "a">>}
SeqConditions == {EmptyObject, CondA, CondB}

Init ==
    /\ policy = NewAuthPolicy(GuestPrincipal, AccountId)
    /\ ret = NoCall
    /\ HandlerIdle

CanAdd == NumGrants < MaxGrants

Next ==
    \/ CanAdd /\ allowAllMethods
    \/ CanAdd /\ denyAllMethods
    \/ CanAdd /\ \E v \in SeqVerbs, r \in SeqPaths : allowMethod(v, r)
    \/ CanAdd /\ \E v \in SeqVerbs, r \in SeqPaths : denyMethod(v, r)
    \/ CanAdd /\ \E v \in SeqVerbs, r \in SeqPaths, c \in SeqConditions :
                     allowMethodWithConditions(v, r, c)
    \/ CanAdd /\ \E v \in SeqVerbs, r \in SeqPaths, c \in SeqConditions :
                     denyMethodWithConditions(v, r, c)
    \/ Build

Spec == Init /\ [][Next]_vars

-----------------------------------------------------------------------------
(* ConfigSpec: a client that also re-targets the builder between grants *)

MaxConfigGrants == 2

Regions == {"us-east-1", "us-east-2"}
RestApiIds == {"<<restApiId>>", "029t1z0lil"}
Stages == {"<<stage>>", "ar_detailing"}
ConfigVerbs == {"POST", "get"}
ConfigPaths == {<<"/", "x">>, <<>>}

CanAddConfig == NumGrants < MaxConfigGrants

ConfigNext ==
    \/ \E v \in Regions : SetRegion(v)
    \/ \E v \in RestApiIds : SetRestApiId(v)
    \/ \E v \in Stages : SetStage(v)
    \/ CanAddConfig /\ \E v \in ConfigVerbs, r \in ConfigPaths : allowMethod(v, r)
    \/ CanAddConfig /\ \E v \in ConfigVerbs, r \in ConfigPaths : denyMethod(v, r)
    \/ CanAddConfig /\ \E v \in ConfigVerbs, r \in ConfigPaths :
                           allowMethodWithConditions(v, r, CondA)
    \/ CanAddConfig /\ \E v \in ConfigVerbs, r \in ConfigPaths :
                           denyMethodWithConditions(v, r, CondA)

ConfigSpec == Init /\ [][ConfigNext]_vars

-----------------------------------------------------------------------------
(* The handler (AuthResponse.mts, lines 19-58) *)

\* 'Bearer '.length
PrefixLength == 7

Api == <<"/", "a", "p", "i">>
PathService == Api \o <<"/", "s", "e", "r", "v", "i", "c", "e">>
PathExample == Api \o <<"/", "e", "x", "a", "m", "p", "l", "e">>
PathMessage == Api \o <<"/", "m", "e", "s", "s", "a", "g", "e">>
PathReservation == Api \o <<"/", "r", "e", "s", "e", "r", "v", "a", "t", "i", "o", "n">>

\* the six allowMethod calls of lines 34-41, in order
PublicMethods ==
    << <<HttpVerb.GET, PathService>>,
       <<HttpVerb.GET, PathService \o <<"/", "*">> >>,
       <<HttpVerb.GET, PathExample>>,
       <<HttpVerb.GET, PathExample \o <<"/", "*">> >>,
       <<HttpVerb.POST, PathMessage>>,
       <<HttpVerb.POST, PathReservation>> >>

\* policy.allowMethod(...) for calls[1..n] in order; a throw ends the sequence
RECURSIVE AllowEach(_, _, _)
AllowEach(p, calls, n) ==
    IF n = 0
    THEN [threw |-> NoError, policy |-> p]
    ELSE LET before == AllowEach(p, calls, n - 1)
         IN  IF before.threw # NoError
             THEN before
             ELSE _addMethod(before.policy, Allow, calls[n][1], calls[n][2], Null)

\* a variant that tests for a value being there (v != null), not its truth
Truthy_Defined(v) == v.type \notin {"null", "undefined"}

\* JavaScript truthiness of a value [type, repr]
Truthy(v) ==
    CASE v.type = "boolean"   -> v.repr = "true"
      [] v.type = "number"    -> v.repr \notin {"0", "NaN"}
      [] v.type = "string"    -> v.repr # ""
      [] v.type = "null"      -> FALSE
      [] v.type = "undefined" -> FALSE

\* data.isAdmin: undefined when the document has no such field
IsAdminOf(data) ==
    IF "isAdmin" \in DOMAIN data THEN data.isAdmin
    ELSE [type |-> "undefined", repr |-> "undefined"]

\* lines 21-41: the token, the builder, its target and the public grants.
\* header.substring throws a TypeError when the event carries no token string.
HandlerStart ==
    /\ pc = "start"
    /\ IF event.authorizationToken = <<>>
       THEN /\ pc' = "rejected"
            /\ caught' = <<>>
            /\ UNCHANGED <<policy, ret, token, principalId>>
       ELSE LET header == event.authorizationToken[1]
                guest == "ar_detailing|guest"
                fresh == NewAuthPolicy(guest, "067520872288")
                targeted == [fresh EXCEPT !.restApiId = "029t1z0lil",
                                          !.region = "us-east-2",
                                          !.stage = "ar_detailing"]
                r == AllowEach(targeted, PublicMethods, Len(PublicMethods))
            IN  /\ token' = slice(header, PrefixLength)
                /\ principalId' = guest
                /\ policy' = r.policy
                /\ ret' = Call("allowMethod", PublicMethods[Len(PublicMethods)][1],
                               PublicMethods[Len(PublicMethods)][2], Null, r.threw, <<>>)
                /\ pc' = IF r.threw = NoError THEN "verify" ELSE "rejected"
                /\ UNCHANGED caught
    /\ UNCHANGED <<event, user, firestoreUser, response>>

\* line 44-45: auth.verifyIdToken(token) resolves with the decoded token
VerifyResolve(decoded) ==
    /\ pc = "verify"
    /\ user' = <<decoded>>
    /\ principalId' = decoded.uid
    /\ pc' = "lookup"
    /\ UNCHANGED <<policy, ret, event, token, firestoreUser, caught, response>>

\* line 44, 52: auth.verifyIdToken(token) rejects; the catch block takes it
VerifyReject(error) ==
    /\ pc = "verify"
    /\ caught' = <<error>>
    /\ pc' = "build"
    /\ UNCHANGED <<policy, ret, event, token, user, principalId, firestoreUser, response>>

\* getFirestoreUser's snapshot callback (part_001 lines 17-24) and, when it
\* resolves, lines 47-50 of the handler
LookupSnapshot(doc) ==
    /\ pc = "lookup"
    /\ IF doc.exists /\ doc.data # <<>>
       THEN LET data == doc.data[1]
                r == _addMethod(policy, Allow, HttpVerb.ALL, <<"*">>, Null)
            IN  /\ firestoreUser' = <<data>>
                /\ IF Truthy(IsAdminOf(data))
                   THEN /\ policy' = r.policy
                        /\ ret' = Call("allowAllMethods", HttpVerb.ALL, <<"*">>, Null,
                                       r.threw, <<>>)
                        /\ caught' = IF r.threw = NoError THEN <<>> ELSE <<r.threw>>
                   ELSE UNCHANGED <<policy, ret, caught>>
       ELSE /\ caught' = <<"User not found in Firestore">>
            /\ UNCHANGED <<policy, ret, firestoreUser>>
    /\ pc' = "build"
    /\ UNCHANGED <<event, token, user, principalId, response>>

\* getFirestoreUser's error callback (part_001 lines 25-27)
LookupError(error) ==
    /\ pc = "lookup"
    /\ caught' = <<error>>
    /\ pc' = "build"
    /\ UNCHANGED <<policy, ret, event, token, user, principalId, firestoreUser, response>>

\* line 57: return policy.build()
HandlerReturn ==
    /\ pc = "build"
    /\ LET r == build(policy)
       IN  /\ policy' = r.policy
           /\ ret' = Call("build", "", <<>>, Null, r.threw, r.value)
           /\ response' = r.value
           /\ pc' = IF r.threw = NoError THEN "done" ELSE "rejected"
    /\ UNCHANGED <<event, token, user, principalId, firestoreUser, caught>>

Bearer == <<"B", "e", "a", "r", "e", "r", " ">>
Headers == {Bearer \o <<"t", "1">>, Bearer \o <<"t", "2">>, Bearer, <<"t", "1">>, <<>>}
Events == {[authorizationToken |-> <<h>>] : h \in Headers}
              \cup {[authorizationToken |-> <<>>]}
Uids == {"uid1", "uid2"}
DecodedTokens == {[uid |-> u] : u \in Uids}
IsAdminValues ==
    {[type |-> "boolean", repr |-> "true"], [type |-> "boolean", repr |-> "false"],
     [type |-> "number", repr |-> "1"], [type |-> "number", repr |-> "0"],
     [type |-> "string", repr |-> "yes"], [type |-> "string", repr |-> ""],
     [type |-> "null", repr |-> "null"]}
Documents == {[isAdmin |-> v] : v \in IsAdminValues} \cup {[name |-> "n"]}
Snapshots ==
    {[exists |-> TRUE, data |-> <<d>>] : d \in Documents}
        \cup {[exists |-> TRUE, data |-> <<>>], [exists |-> FALSE, data |-> <<>>]}
VerifyErrors == {"auth/argument-error", "auth/id-token-expired"}
LookupErrors == {"unavailable", "permission-denied"}

HandlerInit ==
    /\ pc = "start"
    /\ event \in Events
    /\ policy = <<>>
    /\ ret = NoCall
    /\ token = <<>>
    /\ user = <<>>
    /\ principalId = ""
    /\ firestoreUser = <<>>
    /\ caught = <<>>
    /\ response = <<>>

HandlerNext ==
    \/ HandlerStart
    \/ \E d \in DecodedTokens : VerifyResolve(d)
    \/ \E e \in VerifyErrors : VerifyReject(e)
    \/ \E s \in Snapshots : LookupSnapshot(s)
    \/ \E e \in LookupErrors : LookupError(e)
    \/ HandlerReturn

HandlerSpec == HandlerInit /\ [][HandlerNext]_vars

-----------------------------------------------------------------------------
(* AddSpec: one mutator call on a builder, over every verb and every       *)
(* short path                                                              *)

MaxPathLen == 2

\* one character of each kind the path grammar tells apart, and two it rejects
PathAlphabet == {"a", "Z", "7", ".", "-", "/", "*", " ", "?"}

RECURSIVE SeqsUpTo(_, _)
SeqsUpTo(S, n) ==
    IF n = 0 THEN {<<>>}
    ELSE LET shorter == SeqsUpTo(S, n - 1)
         IN  shorter \cup {Append(s, c) : s \in shorter, c \in S}

AddPaths == SeqsUpTo(PathAlphabet, MaxPathLen)
AddVerbs == ObjectValues(HttpVerb) \cup {"TRACE", "get"}

\* the handler's three field assignments
Retarget(p) ==
    [p EXCEPT !.restApiId = "029t1z0lil", !.region = "us-east-2", !.stage = "ar_detailing"]

\* builders the call is made on: a new one, the handler's re-targeted one, the
\* handler's with its public grants, and that one with a deny grant as well
AddBuilders ==
    LET new == NewAuthPolicy(GuestPrincipal, AccountId)
        public == AllowEach(Retarget(new), PublicMethods, Len(PublicMethods)).policy
    IN  {new, Retarget(new), public,
         _addMethod(public, Deny, HttpVerb.ALL, <<"*">>, Null).policy}

AddInit ==
    /\ policy \in AddBuilders
    /\ ret = NoCall
    /\ HandlerIdle

Fresh == ret.op = "new"

AddNext ==
    \/ Fresh /\ allowAllMethods
    \/ Fresh /\ denyAllMethods
    \/ Fresh /\ \E v \in AddVerbs, r \in AddPaths : allowMethod(v, r)
    \/ Fresh /\ \E v \in AddVerbs, r \in AddPaths : denyMethod(v, r)
    \/ Fresh /\ \E v \in AddVerbs, r \in AddPaths : allowMethodWithConditions(v, r, CondA)
    \/ Fresh /\ \E v \in AddVerbs, r \in AddPaths : denyMethodWithConditions(v, r, CondA)

AddSpec == AddInit /\ [][AddNext]_vars

-----------------------------------------------------------------------------
(* Properties of build() : C1, C2, C3, C7 (under Spec) *)

\* a grant is conditional when its condition map is present and has a key
Conditional(g) == g.conditions # <<>> /\ DOMAIN g.conditions[1] # {}

\* the k-th smallest member of a finite set of integers
Kth(S, k) == CHOOSE i \in S : Cardinality({j \in S : j <= i}) = k

\* the members of sequence s at the positions in I, in increasing position
Pick(s, I) == [k \in 1..Cardinality(I) |-> s[Kth(I, k)]]

CondIdx(L) == {i \in 1..Len(L) : Conditional(L[i])}
UncondIdx(L) == {i \in 1..Len(L) : ~Conditional(L[i])}

BuiltOk == ret.op = "build" /\ ret.threw = NoError
Doc == ret.value[1]
Statements == Doc.policyDocument.Statement
HasCondition(st) == "Condition" \in DOMAIN st

\* the positions in the built Statement list of the statements of an effect
OfEffect(e) == {j \in 1..Len(Statements) : Statements[j].Effect = e}

C1_ForEffect(e, L) ==
    LET S == OfEffect(e)
        condS == {j \in S : HasCondition(Statements[j])}
        plainS == S \ condS
    IN  \* each conditional grant has its own statement: as many statements
        \* hold a given (resource, condition map) as grants do
        /\ \A j \in condS : Len(Statements[j].Resource) = 1
        /\ \A i \in CondIdx(L) :
              Cardinality({j \in condS :
                              /\ Statements[j].Resource = <<L[i].resourceArn>>
                              /\ Statements[j].Condition = L[i].conditions[1]})
                = Cardinality({h \in CondIdx(L) : L[h] = L[i]})
        /\ Cardinality(condS) = Cardinality(CondIdx(L))
        \* the unconditional grants share one statement, in call order
        /\ Cardinality(plainS) = IF UncondIdx(L) = {} THEN 0 ELSE 1
        /\ \A j \in plainS :
              Statements[j].Resource =
                  [k \in 1..Cardinality(UncondIdx(L)) |->
                      Pick(L, UncondIdx(L))[k].resourceArn]
        /\ Cardinality(S) =
              Cardinality(CondIdx(L)) + (IF UncondIdx(L) = {} THEN 0 ELSE 1)

\* C1: in a built document, for each effect, every conditional grant has its
\* own one-resource statement carrying its condition map, and the grants
\* whose map is null or empty are merged, in call order, into one statement
\* without Condition; the effect has k + (1 if u > 0) statements.
C1_MergeUnconditional ==
    BuiltOk =>
        /\ C1_ForEffect(Allow, policy.allowMethods)
        /\ C1_ForEffect(Deny, policy.denyMethods)
        /\ OfEffect(Allow) \cup OfEffect(Deny) = 1..Len(Statements)

\* two unconditional allow grants (one null, one with an empty map) of
\* different resources and one conditional grant have been built
C1_Witness ==
    /\ BuiltOk
    /\ Cardinality(CondIdx(policy.allowMethods)) = 1
    /\ \E i, j \in UncondIdx(policy.allowMethods) :
          /\ i < j
          /\ policy.allowMethods[i].conditions = <<>>
          /\ policy.allowMethods[j].conditions = <<EmptyObject>>
          /\ policy.allowMethods[i].resourceArn # policy.allowMethods[j].resourceArn
    /\ Len(Statements) = 2

\* the statements an effect must produce: conditional ones in grant order,
\* then the merged one
ExpectedFor(e, L) ==
    [k \in 1..Cardinality(CondIdx(L)) |->
        [Action |-> "execute-api:Invoke", Effect |-> e,
         Resource |-> <<Pick(L, CondIdx(L))[k].resourceArn>>,
         Condition |-> Pick(L, CondIdx(L))[k].conditions[1]]]
    \o (IF UncondIdx(L) = {} THEN <<>>
        ELSE <<[Action |-> "execute-api:Invoke", Effect |-> e,
                Resource |-> [k \in 1..Cardinality(UncondIdx(L)) |->
                                 Pick(L, UncondIdx(L))[k].resourceArn]]>>)

\* C2: the built Statement list is the conditional Allow statements in grant
\* order, the merged Allow statement, the conditional Deny statements in
\* grant order, the merged Deny statement; no Deny precedes an Allow.
C2_StatementOrder ==
    BuiltOk =>
        /\ Statements = ExpectedFor(Allow, policy.allowMethods)
                            \o ExpectedFor(Deny, policy.denyMethods)
        /\ \A i, j \in 1..Len(Statements) :
              Statements[i].Effect = Deny /\ Statements[j].Effect = Allow => j < i

\* grants [conditional A, unconditional B, conditional C] of one effect, with
\* A and C different, built as [A, C, B]
C2_Witness ==
    /\ BuiltOk
    /\ Len(policy.allowMethods) = 3
    /\ Conditional(policy.allowMethods[1])
    /\ ~Conditional(policy.allowMethods[2])
    /\ Conditional(policy.allowMethods[3])
    /\ policy.allowMethods[1] # policy.allowMethods[3]
    /\ Len(Statements) = 3
    /\ Statements[1].Resource = <<policy.allowMethods[1].resourceArn>>
    /\ Statements[2].Resource = <<policy.allowMethods[3].resourceArn>>
    /\ Statements[3].Resource = <<policy.allowMethods[2].resourceArn>>

\* C3: build() throws 'No statements defined for the policy' exactly when
\* both lists are empty; otherwise it returns a document with at least one
\* statement, each with a non-empty Resource list.
C3_NoStatements ==
    ret.op = "build" =>
        /\ ret.threw = "No statements defined for the policy"
              <=> (Len(policy.allowMethods) = 0 /\ Len(policy.denyMethods) = 0)
        /\ NumGrants >= 1 =>
              /\ ret.threw = NoError
              /\ Len(ret.value) = 1
              /\ Len(Statements) >= 1
              /\ \A j \in 1..Len(Statements) : Len(Statements[j].Resource) >= 1
        /\ ret.threw # NoError => ret.value = <<>>

\* a build with only deny grants, one of them conditional, succeeded
C3_Witness ==
    /\ BuiltOk
    /\ Len(policy.allowMethods) = 0
    /\ Len(policy.denyMethods) = 2
    /\ Len(Statements) = 2

\* C7: build() leaves the builder as it was (both lists, principalId,
\* version, region, restApiId, stage), whether it throws or not, and building
\* again straight away gives the same outcome.
C7_BuildIsPure ==
    [][ret'.op = "build" =>
          /\ policy' = policy
          /\ LET again == build(policy')
             IN  /\ again.threw = ret'.threw
                 /\ again.value = ret'.value
                 /\ again.policy = policy]_vars

\* a build of grants of both effects, one of them conditional, has returned
C7_Witness ==
    /\ BuiltOk
    /\ Len(policy.allowMethods) >= 1
    /\ Len(policy.denyMethods) >= 1
    /\ \E j \in 1..Len(Statements) : HasCondition(Statements[j])

-----------------------------------------------------------------------------
(* Properties of one mutator call : C4, C5, C6 (under AddSpec) *)

Called == ret.op \in MutatorOps

\* the list a mutator appends to
ListOf(p, op) == IF op \in AllowOps THEN p.allowMethods ELSE p.denyMethods

\* the wildcard and the verb enumeration
KnownVerbs == {"*", "GET", "POST", "PUT", "PATCH", "HEAD", "DELETE", "OPTIONS"}

\* C4: a mutator call whose verb is neither '*' nor one of GET, POST, PUT,
\* PATCH, HEAD, DELETE, OPTIONS throws the invalid-verb error and leaves both
\* lists as they were; with one of those verbs it never throws that error.
C4_InvalidVerb ==
    [][ret'.op \in MutatorOps =>
          LET known == ret'.verb \in KnownVerbs
          IN  /\ ~known =>
                    /\ ret'.threw = "Invalid HTTP verb"
                    /\ policy'.allowMethods = policy.allowMethods
                    /\ policy'.denyMethods = policy.denyMethods
              /\ known => ret'.threw # "Invalid HTTP verb"]_vars

\* TRACE was refused on a builder that already holds grants of both effects
C4_Witness ==
    /\ Called
    /\ ret.verb = "TRACE"
    /\ ret.threw = "Invalid HTTP verb"
    /\ RegExpTest(policy.pathRegex, ret.resource)
    /\ Len(policy.allowMethods) = 6
    /\ Len(policy.denyMethods) = 1

\* the characters the path grammar admits
GrammarChars == Lower \cup Upper \cup Digit \cup {".", "-", "/", "*"}
InGrammar(path) == Len(path) >= 1 /\ \A i \in 1..Len(path) : path[i] \in GrammarChars

\* C5 as stated: every call with a path outside the grammar throws the
\* invalid-path error (and adds nothing), whatever the verb.
C5_AsStated ==
    [][ret'.op \in MutatorOps =>
          /\ ret'.threw = NoError => InGrammar(ret'.resource)
          /\ ~InGrammar(ret'.resource) =>
                /\ ret'.threw = "Invalid resource path"
                /\ policy' = policy]_vars

\* C5, amended: a call is accepted only if its path is non-empty and made of
\* letters, digits, '.', '-', '/' and '*'; any other path makes the call throw
\* and add no grant, and the error is the invalid-path one whenever the verb
\* is valid (an invalid verb is reported first).
C5_InvalidPath ==
    [][ret'.op \in MutatorOps =>
          /\ ret'.threw = NoError => InGrammar(ret'.resource)
          /\ ~InGrammar(ret'.resource) =>
                /\ ret'.threw # NoError
                /\ policy' = policy
                /\ ret'.verb \in KnownVerbs =>
                      ret'.threw = "Invalid resource path"]_vars

\* a path with a '?' was refused, under a valid verb, on a builder that
\* already holds grants of both effects
C5_Witness ==
    /\ Called
    /\ ret.verb = "GET"
    /\ \E i \in 1..Len(ret.resource) : ret.resource[i] = "?"
    /\ ret.threw = "Invalid resource path"
    /\ Len(policy.allowMethods) = 6
    /\ Len(policy.denyMethods) = 1

\* the resource identifier of verb and path under the builder's target
Identifier(p, verb, path) ==
    <<"arn:aws:execute-api:", p.region, ":", p.awsAccountId, ":", p.restApiId,
      "/", p.stage, "/", verb, "/">> \o path

\* C6: the grant a successful call appends names
\* arn:aws:execute-api:<region>:<accountId>:<restApiId>/<stage>/<verb>/<p>,
\* where p is the path given without its first character when that is '/',
\* and the path given otherwise: '/'+p and p give the same identifier, and a
\* second leading '/' stays.
C6_LeadingSlash ==
    (Called /\ ret.threw = NoError) =>
        LET L == ListOf(policy, ret.op)
            given == ret.resource
        IN  /\ Len(L) >= 1
            /\ L[Len(L)].resourceArn =
                  Identifier(policy, ret.verb,
                             IF given[1] = "/" THEN Tail(given) ELSE given)

\* '//' was added and its identifier ends with a single '/' after the verb's
C6_Witness ==
    /\ Called
    /\ ret.threw = NoError
    /\ ret.resource = <<"/", "/">>
    /\ LET L == ListOf(policy, ret.op)
       IN  L[Len(L)].resourceArn = Identifier(policy, ret.verb, <<"/">>)

-----------------------------------------------------------------------------
(* Append-only lists : C9 (under ConfigSpec) *)

\* the target a resource identifier was built for
TargetOf(arn) == <<arn[2], arn[4], arn[6], arn[8]>>
TargetNow(p) == <<p.region, p.awsAccountId, p.restApiId, p.stage>>

\* C9: a successful mutator call appends exactly one grant, built for the
\* region, account, API and stage of that moment and carrying the call's
\* conditions, to the end of the list of its own effect, and leaves the other
\* list and every earlier grant as they were; a failing call and an override
\* of region, restApiId or stage leave both lists as they were.
C9_AppendOnly ==
    [][/\ (ret'.op \in MutatorOps /\ ret'.threw = NoError) =>
            LET own == ListOf(policy, ret'.op)
                own2 == ListOf(policy', ret'.op)
                other == IF ret'.op \in AllowOps THEN policy.denyMethods
                         ELSE policy.allowMethods
                other2 == IF ret'.op \in AllowOps THEN policy'.denyMethods
                          ELSE policy'.allowMethods
            IN  /\ Len(own2) = Len(own) + 1
                /\ SubSeq(own2, 1, Len(own)) = own
                /\ TargetOf(own2[Len(own2)].resourceArn) = TargetNow(policy)
                /\ own2[Len(own2)].conditions = ret'.conditions
                /\ other2 = other
                /\ TargetNow(policy') = TargetNow(policy)
       /\ (ret'.op \in MutatorOps /\ ret'.threw # NoError) => policy' = policy
       /\ ret'.op \in SetterOps =>
            /\ policy'.allowMethods = policy.allowMethods
            /\ policy'.denyMethods = policy.denyMethods]_vars

\* a grant added after an override names the new target and follows, in the
\* same list, a grant that still names the old one
C9_Witness ==
    /\ ret.op = "allowMethodWithConditions"
    /\ ret.threw = NoError
    /\ Len(policy.allowMethods) = 2
    /\ TargetOf(policy.allowMethods[1].resourceArn) # TargetNow(policy)
    /\ TargetOf(policy.allowMethods[2].resourceArn) = TargetNow(policy)

-----------------------------------------------------------------------------
(* The handler's policy : C8, C10 (under HandlerSpec) *)

\* the identifier of a public method
Public(verb, path) ==
    <<"arn:aws:execute-api:", "us-east-2", ":", "067520872288", ":", "029t1z0lil",
      "/", "ar_detailing", "/", verb, "/">> \o path

GuestResources ==
    << Public("GET", Tail(PathService)),
       Public("GET", Tail(PathService) \o <<"/", "*">>),
       Public("GET", Tail(PathExample)),
       Public("GET", Tail(PathExample) \o <<"/", "*">>),
       Public("POST", Tail(PathMessage)),
       Public("POST", Tail(PathReservation)) >>

AllowStatement(resources) ==
    [Action |-> "execute-api:Invoke", Effect |-> Allow, Resource |-> resources]

\* verification succeeded, the lookup succeeded, and isAdmin is truthy
AdminOutcome ==
    /\ user # <<>>
    /\ firestoreUser # <<>>
    /\ "isAdmin" \in DOMAIN firestoreUser[1]
    /\ firestoreUser[1].isAdmin \in
          {[type |-> "boolean", repr |-> "true"], [type |-> "number", repr |-> "1"],
           [type |-> "string", repr |-> "yes"]}

\* C8: every failure of verification or lookup reaches the catch block and the
\* handler still returns; the returned document is the guest policy (one Allow
\* statement with the six public resources in order) in every outcome but the
\* admin one, where the wildcard resource follows the six.
C8_GuestFallback ==
    /\ caught # <<>> => pc \in {"build", "done"}
    /\ pc = "rejected" => user = <<>> /\ event.authorizationToken = <<>>
    /\ pc = "done" =>
          /\ Len(response) = 1
          /\ response[1].policyDocument.Statement =
                IF AdminOutcome
                THEN <<AllowStatement(Append(GuestResources, Public("*", <<"*">>)))>>
                ELSE <<AllowStatement(GuestResources)>>

\* the lookup failed for a verified user and the guest policy was returned
C8_Witness ==
    /\ pc = "done"
    /\ user # <<>>
    /\ caught = <<"User not found in Firestore">>
    /\ response[1].policyDocument.Statement = <<AllowStatement(GuestResources)>>

\* C10: when verification succeeds the returned principalId is the user's
\* uid; the guest principal is returned only when verification fails.
C10_PrincipalIsUid ==
    pc = "done" =>
        /\ user # <<>> => response[1].principalId = user[1].uid
        /\ response[1].principalId = "ar_detailing|guest" => user = <<>>

====
